---------------------------- MODULE Spec2Model ----------------------------
(***************************************************************************)
(* Model of evoconprint (src/app.py): the checklist print service.         *)
(*                                                                         *)
(* Text is modelled as a sequence of symbols.  A symbol is one character   *)
(* (" ", ",", ":", "-", a digit, a letter), or, for free text that the     *)
(* code only compares, trims or copies, one token standing for a run of    *)
(* non-blank characters without comma (an item label, an operator name).   *)
(* The shift identifier written with the Greek capital gamma in the source *)
(* is written "G" here.  JSON null and an absent field are None.           *)
(***************************************************************************)
EXTENDS Integers, Sequences, FiniteSets, TLC

VARIABLES rows, response, call, ret

vars == <<rows, response, call, ret>>

-----------------------------------------------------------------------------
(* Bounds of the explored inputs.                                          *)

MaxLen == 5
MaxTimes == 3
MaxRows == 3

-----------------------------------------------------------------------------
(* Python values and string primitives.                                    *)

None == <<"None">>

Whitespace == {" "}

RECURSIVE lstrip(_)
lstrip(s) ==
    IF s # <<>> /\ Head(s) \in Whitespace THEN lstrip(Tail(s)) ELSE s

RECURSIVE rstrip(_)
rstrip(s) ==
    IF s # <<>> /\ s[Len(s)] \in Whitespace
    THEN rstrip(SubSeq(s, 1, Len(s) - 1))
    ELSE s

strip(s) == rstrip(lstrip(s))

(* s.replace(old, new) for a one-character old and new                     *)
replace(s, old, new) == [i \in 1..Len(s) |-> IF s[i] = old THEN new ELSE s[i]]

(* str(x or "") followed by .strip(), the way every record field is read   *)
field(r, name) == IF r[name] = None THEN <<>> ELSE strip(r[name])

-----------------------------------------------------------------------------
(* normalize_value                                                         *)

Placeholders == {<<"-">>, <<"N", "/", "A">>, <<"n", "/", "a">>}

normalize_value(v) ==
    IF v = None THEN <<>>
    ELSE LET s == strip(v)
         IN  IF s \in Placeholders THEN <<>> ELSE replace(s, ",", ".")


-----------------------------------------------------------------------------
(* parse_hhmm, minutes: datetime.strptime(s.strip(), "%H:%M").time()       *)

Digits == <<"0", "1", "2", "3", "4", "5", "6", "7", "8", "9">>

IsDigit(c) == \E d \in 1..Len(Digits) : Digits[d] = c

DigitValue(c) == (CHOOSE d \in 1..Len(Digits) : Digits[d] = c) - 1

(* a directive's text: one or two digits                                   *)
IsNumber(s) == Len(s) \in 1..2 /\ \A i \in 1..Len(s) : IsDigit(s[i])

NumberValue(s) ==
    IF Len(s) = 1 THEN DigitValue(s[1])
    ELSE 10 * DigitValue(s[1]) + DigitValue(s[2])

NoTime == [none |-> TRUE]

(* %H is 2[0-3]|[0-1]\d|\d and %M is [0-5]\d|\d; the whole text must be    *)
(* consumed, otherwise strptime raises ValueError, caught as None          *)
parse_hhmm(s) ==
    LET x == strip(s)
        ok(i) == /\ x[i] = ":"
                 /\ IsNumber(SubSeq(x, 1, i - 1))
                 /\ NumberValue(SubSeq(x, 1, i - 1)) <= 23
                 /\ IsNumber(SubSeq(x, i + 1, Len(x)))
                 /\ NumberValue(SubSeq(x, i + 1, Len(x))) <= 59
    IN  IF \E i \in 1..Len(x) : ok(i)
        THEN LET i == CHOOSE j \in 1..Len(x) : ok(j)
             IN  [hour   |-> NumberValue(SubSeq(x, 1, i - 1)),
                  minute |-> NumberValue(SubSeq(x, i + 1, Len(x)))]
        ELSE NoTime

minutes(t) == t.hour * 60 + t.minute

Midnight == [hour |-> 0, minute |-> 0]

(* parse_hhmm(x) or datetime.strptime("00:00", "%H:%M").time()             *)
parse_or_midnight(s) ==
    IF parse_hhmm(s) = NoTime THEN Midnight ELSE parse_hhmm(s)

-----------------------------------------------------------------------------
(* sort_donetime_list                                                      *)

SHIFT_START ==
    [n \in {<<"A">>, <<"B">>, <<"G">>} |->
        CASE n = <<"A">> -> <<"0", "6", ":", "0", "0">>
          [] n = <<"B">> -> <<"1", "4", ":", "0", "0">>
          [] n = <<"G">> -> <<"2", "2", ":", "0", "0">>]

(* SHIFT_START.get(shift_name, "00:00")                                    *)
start_str(shift_name) ==
    IF shift_name \in DOMAIN SHIFT_START
    THEN SHIFT_START[shift_name]
    ELSE <<"0", "0", ":", "0", "0">>

start_m(shift_name) == minutes(parse_or_midnight(start_str(shift_name)))

(* variant of key: the subtraction without the wrap at 24 hours             *)
KeyNoWrap(tstr, shift_name) ==
    minutes(parse_or_midnight(tstr)) - start_m(shift_name)

key(tstr, shift_name) ==
    (minutes(parse_or_midnight(tstr)) - start_m(shift_name)) % (24 * 60)

(* sorted(times, key=key) is stable: an element goes behind every element  *)
(* already placed whose key is not greater                                 *)
RECURSIVE insort(_, _, _)
insort(acc, x, shift_name) ==
    IF acc = <<>> THEN <<x>>
    ELSE IF key(x, shift_name) < key(Head(acc), shift_name)
         THEN <<x>> \o acc
         ELSE <<Head(acc)>> \o insort(Tail(acc), x, shift_name)

RECURSIVE sort_donetime_list(_, _)
sort_donetime_list(times, shift_name) ==
    IF times = <<>> THEN <<>>
    ELSE insort(sort_donetime_list(SubSeq(times, 1, Len(times) - 1), shift_name),
                times[Len(times)], shift_name)

-----------------------------------------------------------------------------
(* datetime.strptime(x, "%Y-%m-%d").date()                                 *)

NoDate == [none |-> TRUE]

IsLeap(y) == (y % 4 = 0 /\ y % 100 # 0) \/ y % 400 = 0

DaysInMonth(y, m) ==
    IF m = 2 THEN (IF IsLeap(y) THEN 29 ELSE 28)
    ELSE IF m \in {4, 6, 9, 11} THEN 30 ELSE 31

(* %Y is \d\d\d\d, %m is 1[0-2]|0[1-9]|[1-9], %d is                         *)
(* 3[01]|[12]\d|0[1-9]|[1-9]| [1-9]; the whole text must be consumed and   *)
(* the day must exist, otherwise ValueError (NoDate)                       *)
strptime_date(x) ==
    LET isYear(s) == Len(s) = 4 /\ \A i \in 1..4 : IsDigit(s[i])
        yearOf(s) == 1000 * DigitValue(s[1]) + 100 * DigitValue(s[2])
                     + 10 * DigitValue(s[3]) + DigitValue(s[4])
        isMonth(s) == IsNumber(s) /\ NumberValue(s) \in 1..12
        isDay(s) == \/ IsNumber(s) /\ NumberValue(s) \in 1..31
                    \/ Len(s) = 2 /\ s[1] = " " /\ IsDigit(s[2]) /\ s[2] # "0"
        dayOf(s) == IF s[1] = " " THEN DigitValue(s[2]) ELSE NumberValue(s)
        ok(j) == /\ Len(x) >= 8
                 /\ isYear(SubSeq(x, 1, 4))
                 /\ x[5] = "-"
                 /\ x[j] = "-"
                 /\ isMonth(SubSeq(x, 6, j - 1))
                 /\ isDay(SubSeq(x, j + 1, Len(x)))
                 /\ yearOf(SubSeq(x, 1, 4)) >= 1
                 /\ dayOf(SubSeq(x, j + 1, Len(x)))
                      <= DaysInMonth(yearOf(SubSeq(x, 1, 4)),
                                     NumberValue(SubSeq(x, 6, j - 1)))
    IN  IF \E j \in 7..Len(x) : ok(j)
        THEN LET j == CHOOSE k \in 7..Len(x) : ok(k)
             IN  [year  |-> yearOf(SubSeq(x, 1, 4)),
                  month |-> NumberValue(SubSeq(x, 6, j - 1)),
                  day   |-> dayOf(SubSeq(x, j + 1, Len(x)))]
        ELSE NoDate

date_less(a, b) ==
    \/ a.year < b.year
    \/ a.year = b.year /\ a.month < b.month
    \/ a.year = b.year /\ a.month = b.month /\ a.day < b.day

time_less(a, b) == minutes(a) < minutes(b)

-----------------------------------------------------------------------------
(* build_shift_index                                                       *)

(* one pass of the loop over rows; idx keeps the dict's insertion order    *)
index_row(idx, r) ==
    LET sd == field(r, "shiftDate")
        sh == field(r, "shift")
        dt == field(r, "donetime")
        t == parse_hhmm(dt)
        at == {i \in 1..Len(idx) : idx[i].shiftDate = sd /\ idx[i].shift = sh}
    IN  IF sd = <<>> \/ sh = <<>> \/ dt = <<>> THEN idx
        ELSE IF at = {}
        THEN Append(idx, [shiftDate |-> sd, shift |-> sh, last_time |-> t])
        ELSE LET i == CHOOSE k \in at : TRUE
             IN  IF /\ t # NoTime
                    /\ \/ idx[i].last_time = NoTime
                       \/ time_less(idx[i].last_time, t)
                 THEN [idx EXCEPT ![i].last_time = t]
                 ELSE idx

RECURSIVE index_rows(_)
index_rows(rs) ==
    IF rs = <<>> THEN <<>>
    ELSE index_row(index_rows(SubSeq(rs, 1, Len(rs) - 1)), rs[Len(rs)])

(* x["last_time"] or datetime.min.time()                                   *)
last_time_or_min(x) == IF x.last_time = NoTime THEN Midnight ELSE x.last_time

(* variant of sort_key: the date left out of the key                       *)
SortKeyTimeOnly(x) == <<[year |-> 1, month |-> 1, day |-> 1], last_time_or_min(x)>>

sort_key(x) == <<strptime_date(x.shiftDate), last_time_or_min(x)>>

(* comparison of the (date, time) tuples                                   *)
key_less(a, b) ==
    \/ date_less(a[1], b[1])
    \/ a[1] = b[1] /\ time_less(a[2], b[2])

(* sorted(..., reverse=True) is stable too: an element goes behind every   *)
(* element already placed whose key is not smaller                         *)
RECURSIVE insort_reverse(_, _)
insort_reverse(acc, x) ==
    IF acc = <<>> THEN <<x>>
    ELSE IF key_less(sort_key(Head(acc)), sort_key(x))
         THEN <<x>> \o acc
         ELSE <<Head(acc)>> \o insort_reverse(Tail(acc), x)

RECURSIVE sorted_reverse(_)
sorted_reverse(xs) ==
    IF xs = <<>> THEN <<>>
    ELSE insort_reverse(sorted_reverse(SubSeq(xs, 1, Len(xs) - 1)), xs[Len(xs)])

Returned(v) == [done |-> TRUE, raised |-> FALSE, value |-> v]
Raised(e) == [done |-> TRUE, raised |-> TRUE, exception |-> e]

(* sort_key is evaluated for every entry before anything is compared      *)
build_shift_index(rs) ==
    LET idx == index_rows(rs)
    IN  IF \E i \in 1..Len(idx) : strptime_date(idx[i].shiftDate) = NoDate
        THEN Raised("ValueError")
        ELSE Returned(sorted_reverse(idx))

-----------------------------------------------------------------------------
(* build_report                                                            *)

(* the ten labels of the source, transliterated, one token each            *)
ORDERED_ITEMS ==
    << <<"Thermokrasia laminatoriou (C)">>,
       <<"Eidos margarinis">>,
       <<"Thermokrasia margarinis (C)">>,
       <<"Lamaki margarinis (mm)">>,
       <<"Lamaki recupero (mm)">>,
       <<"Diakeno machairion (cm)">>,
       <<"Pachos extruder (1i)">>,
       <<"Pachos extruder (2i)">>,
       <<"Pososto margarinis (%)">>,
       <<"Pososto anakyklosis zymis recupero (%)">> >>

ALLOWED_ITEMS == {ORDERED_ITEMS[i] : i \in 1..Len(ORDERED_ITEMS)}

(* the filter of the list comprehension                                    *)
selected(r, shiftDate, shiftName) ==
    field(r, "shiftDate") = shiftDate /\ field(r, "shift") = shiftName

RECURSIVE filter_rows(_, _, _)
filter_rows(rs, shiftDate, shiftName) ==
    IF rs = <<>> THEN <<>>
    ELSE IF selected(Head(rs), shiftDate, shiftName)
         THEN <<Head(rs)>> \o filter_rows(Tail(rs), shiftDate, shiftName)
         ELSE filter_rows(Tail(rs), shiftDate, shiftName)

(* variant of skipped: the allow-list test left out                        *)
SkippedEmptyDonetimeOnly(r) == field(r, "donetime") = <<>>

(* if not donetime or itemname not in ALLOWED_ITEMS: continue              *)
skipped(r) ==
    field(r, "donetime") = <<>> \/ field(r, "itemname") \notin ALLOWED_ITEMS

(* d with d[k] = v, its other entries kept                                 *)
put(d, k, v) == [x \in DOMAIN d \cup {k} |-> IF x = k THEN v ELSE d[x]]

EmptyDict == [x \in {} |-> <<>>]

snapshot(r) ==
    [operator        |-> field(r, "operator"),
     product         |-> field(r, "productproduced"),
     productionOrder |-> field(r, "productionOrder"),
     station         |-> field(r, "station"),
     factory         |-> field(r, "factoryName")]

(* variant of store_value: a value already stored is kept                  *)
StoreValueFirstWins(st, r) ==
    LET donetime == field(r, "donetime")
        itemname == field(r, "itemname")
        old == IF donetime \in DOMAIN st.submissions
               THEN st.submissions[donetime] ELSE EmptyDict
    IN  [st EXCEPT
           !.keys = IF donetime \in DOMAIN st.submissions THEN @ ELSE Append(@, donetime),
           !.submissions = put(@, donetime,
                               IF itemname \in DOMAIN old THEN old
                               ELSE put(old, itemname, normalize_value(r.itemresult)))]

(* variant of store_value: the donetime listed once per record             *)
StoreValueAlwaysAppend(st, r) ==
    LET donetime == field(r, "donetime")
        itemname == field(r, "itemname")
        old == IF donetime \in DOMAIN st.submissions
               THEN st.submissions[donetime] ELSE EmptyDict
    IN  [st EXCEPT
           !.keys = Append(@, donetime),
           !.submissions = put(@, donetime,
                               put(old, itemname, normalize_value(r.itemresult)))]

(* submissions[donetime][itemname] = normalize_value(...), on a dict made  *)
(* by setdefault at the first value of the donetime; keys keeps the dict's *)
(* insertion order                                                         *)
store_value(st, r) ==
    LET donetime == field(r, "donetime")
        itemname == field(r, "itemname")
        old == IF donetime \in DOMAIN st.submissions
               THEN st.submissions[donetime] ELSE EmptyDict
    IN  [st EXCEPT
           !.keys = IF donetime \in DOMAIN st.submissions THEN @ ELSE Append(@, donetime),
           !.submissions = put(@, donetime,
                               put(old, itemname, normalize_value(r.itemresult)))]

(* variant of store_meta: every record overwrites the snapshot             *)
StoreMetaLastSeen(st, r) ==
    [st EXCEPT !.meta = put(@, field(r, "donetime"), snapshot(r))]

(* if donetime not in meta: meta[donetime] = {...}                         *)
store_meta(st, r) ==
    LET donetime == field(r, "donetime")
    IN  IF donetime \in DOMAIN st.meta THEN st
        ELSE [st EXCEPT !.meta = put(@, donetime, snapshot(r))]

(* the body of the loop over the filtered records                          *)
group_row(st, r) == IF skipped(r) THEN st ELSE store_meta(store_value(st, r), r)

RECURSIVE group_rows(_)
group_rows(rs) ==
    IF rs = <<>> THEN [keys |-> <<>>, submissions |-> EmptyDict, meta |-> EmptyDict]
    ELSE group_row(group_rows(SubSeq(rs, 1, Len(rs) - 1)), rs[Len(rs)])

(* submissions.get(t, {}).get(item, "")                                    *)
cell(st, t, item) ==
    IF t \in DOMAIN st.submissions /\ item \in DOMAIN st.submissions[t]
    THEN st.submissions[t][item]
    ELSE <<>>

matrix_of(st, columns) ==
    [i \in 1..Len(ORDERED_ITEMS) |->
        [label  |-> ORDERED_ITEMS[i],
         values |-> [c \in 1..Len(columns) |-> cell(st, columns[c], ORDERED_ITEMS[i])]]]

EmptyHeader ==
    [operator |-> <<>>, product |-> <<>>, productionOrder |-> <<>>,
     station |-> <<>>, factory |-> <<>>]

(* header = meta.get(columns[-1], header) if columns                       *)
header_of(st, columns) ==
    IF columns = <<>> THEN EmptyHeader
    ELSE IF columns[Len(columns)] \in DOMAIN st.meta
         THEN st.meta[columns[Len(columns)]]
         ELSE EmptyHeader

build_report(rs, shiftDate, shiftName) ==
    LET st == group_rows(filter_rows(rs, shiftDate, shiftName))
        columns == sort_donetime_list(st.keys, shiftName)
    IN  [columns   |-> columns,
         matrix    |-> matrix_of(st, columns),
         header    |-> header_of(st, columns),
         shiftDate |-> shiftDate,
         shift     |-> shiftName]

-----------------------------------------------------------------------------
(* render_print                                                            *)

(* key.split("|")                                                          *)
RECURSIVE split(_, _)
split(s, sep) ==
    IF \A i \in 1..Len(s) : s[i] # sep THEN <<s>>
    ELSE LET i == CHOOSE k \in 1..Len(s) :
                     s[k] = sep /\ \A m \in 1..(k - 1) : s[m] # sep
         IN  <<SubSeq(s, 1, i - 1)>> \o split(SubSeq(s, i + 1, Len(s)), sep)

-----------------------------------------------------------------------------
(* Direct calls of the two helpers, on enumerated arguments.               *)

NoRet == [done |-> FALSE]
NoResponse == [kind |-> "none"]

SeqsUpTo(S, n) == UNION {[1..k -> S] : k \in 0..n}

NormalizeAlphabet == {" ", "-", "N", "n", "/", "A", "a", ",", "5"}

RawValues == {None} \cup SeqsUpTo(NormalizeAlphabet, MaxLen)

InitNormalize ==
    /\ rows = <<>>
    /\ response = NoResponse
    /\ call \in {[fn |-> "normalize_value", v |-> x] : x \in RawValues}
    /\ ret = NoRet

CallNormalizeValue ==
    /\ call.fn = "normalize_value"
    /\ ret = NoRet
    /\ ret' = [done |-> TRUE, value |-> normalize_value(call.v)]
    /\ UNCHANGED <<rows, response, call>>

SpecNormalize == InitNormalize /\ [][CallNormalizeValue]_vars

T2340 == <<"2", "3", ":", "4", "0">>
T0020 == <<"0", "0", ":", "2", "0">>
T0500 == <<"0", "5", ":", "0", "0">>
T500 == <<"5", ":", "0", "0">>
Txx == <<"x", "x">>

TimeStrings == {T2340, T0020, T0500, T500, Txx}

ShiftNames == {<<"A">>, <<"B">>, <<"G">>, <<"X">>}

InitSort ==
    /\ rows = <<>>
    /\ response = NoResponse
    /\ call \in {[fn |-> "sort_donetime_list", times |-> ts, shift_name |-> sh] :
                    ts \in SeqsUpTo(TimeStrings, MaxTimes), sh \in ShiftNames}
    /\ ret = NoRet

CallSortDonetimeList ==
    /\ call.fn = "sort_donetime_list"
    /\ ret = NoRet
    /\ ret' = [done |-> TRUE,
               value |-> sort_donetime_list(call.times, call.shift_name)]
    /\ UNCHANGED <<rows, response, call>>

SpecSort == InitSort /\ [][CallSortDonetimeList]_vars

-----------------------------------------------------------------------------
(* Raw checklist records, as the upstream's JSON gives them.               *)

D0102 == <<"2", "0", "2", "5", "-", "0", "1", "-", "0", "2">>
D0101 == <<"2", "0", "2", "5", "-", "0", "1", "-", "0", "1">>
D12 == <<"2", "0", "2", "5", "-", "1", "-", "2">>
D1301 == <<"2", "0", "2", "5", "-", "1", "3", "-", "0", "1">>
T2300 == <<"2", "3", ":", "0", "0">>

ShiftA == <<"A">>
ShiftG == <<"G">>

(* a record whose header fields all carry the mark m                       *)
Record(sd, sh, dt, item, result, m) ==
    [shiftDate |-> sd, shift |-> sh, donetime |-> dt,
     itemname |-> item, itemresult |-> result,
     operator        |-> IF m = None THEN None ELSE <<"operator">> \o m,
     productproduced |-> IF m = None THEN None ELSE <<"product">> \o m,
     productionOrder |-> IF m = None THEN None ELSE <<"order">> \o m,
     station         |-> IF m = None THEN None ELSE <<"station">> \o m,
     factoryName     |-> IF m = None THEN None ELSE <<"factory">> \o m]

IndexRecord(sd, sh, dt) == Record(sd, sh, dt, None, None, None)

IndexRecords ==
    {IndexRecord(D0102, ShiftA, T0500),
     IndexRecord(D0102, ShiftA, T2300),
     IndexRecord(D0102, ShiftA, Txx),
     IndexRecord(D0102, ShiftG, T0500),
     IndexRecord(D0102, ShiftG, Txx),
     IndexRecord(<<" ">> \o D0102, ShiftG, <<" ">> \o T2300 \o <<" ">>),
     IndexRecord(D12, ShiftA, Txx),
     IndexRecord(D0101, ShiftA, T2300),
     IndexRecord(D0101, ShiftA, T0500),
     IndexRecord(D1301, ShiftA, T0500),
     IndexRecord(D1301, ShiftG, T2300),
     IndexRecord(None, ShiftA, T0500),
     IndexRecord(D0102, <<" ">>, T0500),
     IndexRecord(D0102, ShiftA, None)}

InitIndex ==
    /\ rows \in SeqsUpTo(IndexRecords, MaxRows)
    /\ response = NoResponse
    /\ call \in {[fn |-> "build_shift_index"], [fn |-> "GET /print"]}
    /\ ret = NoRet

CallBuildShiftIndex ==
    /\ call.fn = "build_shift_index"
    /\ ret = NoRet
    /\ ret' = build_shift_index(rows)
    /\ UNCHANGED <<rows, response, call>>

(* the handlers' replies                                                   *)
ErrorPage(e) == [kind |-> "error", status |-> 500, exception |-> e]

(* picker: fetch_checklists_json raises RuntimeError when the upstream     *)
(* does not answer 200 with a JSON list or the credentials are unset       *)
picker(fetched, rs) ==
    IF ~fetched THEN ErrorPage("RuntimeError")
    ELSE LET shifts == build_shift_index(rs)
         IN  IF shifts.raised THEN ErrorPage(shifts.exception)
             ELSE IF shifts.value = <<>>
             THEN [kind |-> "text", status |-> 200, text |-> "No shifts found in last days."]
             ELSE [kind |-> "picker.html", status |-> 200, shifts |-> shifts.value]

Picker ==
    /\ call.fn = "GET /print"
    /\ response = NoResponse
    /\ \E fetched \in BOOLEAN : response' = picker(fetched, rows)
    /\ UNCHANGED <<rows, call, ret>>

NextIndex == CallBuildShiftIndex \/ Picker

SpecIndex == InitIndex /\ [][NextIndex]_vars

-----------------------------------------------------------------------------
(* The report of one shift: records, direct calls and the print request.   *)

Item1 == ORDERED_ITEMS[1]
Item3 == ORDERED_ITEMS[3]
OtherItem == <<"Ygrasia (%)">>

Mark1 == <<"1">>
Mark2 == <<"2">>
Mark3 == <<"3">>

Result1 == <<"1", "2", ",", "5">>
Result2 == <<"7">>

Pad(s) == <<" ">> \o s \o <<" ">>

ReportRecords ==
    {Record(D0102, ShiftG, T2340, Item1, Result1, Mark1),
     Record(D0102, ShiftG, T2340, Item1, Result2, Mark2),
     Record(D0102, ShiftG, T0020, Item1, Result1, Mark1),
     Record(D0102, ShiftG, T0020, Item1, Result2, Mark2),
     Record(D0102, ShiftG, T0020, Item3, Result2, Mark2),
     Record(D0102, ShiftG, T0020, OtherItem, Result1, Mark1),
     Record(D0102, ShiftG, None, Item1, Result1, Mark1),
     Record(D0101, ShiftG, T2340, Item1, Result2, Mark2),
     Record(D0102, ShiftA, T0500, Item1, None, None),
     Record(Pad(D0102), Pad(ShiftG), Pad(T2340), Pad(Item3),
            Pad(<<"N", "/", "A">>), Pad(Mark3))}

KeyOf(sd, sh) == sd \o <<"|">> \o sh

RenderKeys ==
    {KeyOf(D0102, ShiftG),
     KeyOf(Pad(D0102), Pad(ShiftA)),
     D0102,
     KeyOf(D1301, ShiftG)}

ReportCalls ==
    {[fn |-> "build_report", shiftDate |-> D0102, shiftName |-> ShiftG],
     [fn |-> "build_report", shiftDate |-> D0102, shiftName |-> ShiftA]}
    \cup {[fn |-> "GET /print/render", key |-> k] : k \in RenderKeys}

InitReport ==
    /\ rows \in SeqsUpTo(ReportRecords, MaxRows)
    /\ response = NoResponse
    /\ call \in ReportCalls
    /\ ret = NoRet

CallBuildReport ==
    /\ call.fn = "build_report"
    /\ ret = NoRet
    /\ ret' = Returned(build_report(rows, call.shiftDate, call.shiftName))
    /\ UNCHANGED <<rows, response, call>>

(* variant of render_print: "No data found" decided on the fetched rows    *)
RenderPrintEmptyOnNoRows(selection, fetched, rs) ==
    LET parts == split(selection, "|")
    IN  IF Len(parts) # 2
        THEN [kind |-> "text", status |-> 400, text |-> "Invalid selection"]
        ELSE LET shiftDate == strip(parts[1])
                 shiftName == strip(parts[2])
             IN  IF strptime_date(shiftDate) = NoDate THEN ErrorPage("ValueError")
                 ELSE IF ~fetched THEN ErrorPage("RuntimeError")
                 ELSE LET report == build_report(rs, shiftDate, shiftName)
                      IN  IF rs = <<>>
                          THEN [kind |-> "text", status |-> 200,
                                text |-> "No data found",
                                shiftDate |-> shiftDate, shift |-> shiftName,
                                rows_fetched |-> Len(rs)]
                          ELSE [kind |-> "print_form.html", status |-> 200,
                                report |-> report]

(* render_print: the reply to GET /print/render?key=...                    *)
render_print(selection, fetched, rs) ==
    LET parts == split(selection, "|")
    IN  IF Len(parts) # 2
        THEN [kind |-> "text", status |-> 400, text |-> "Invalid selection"]
        ELSE LET shiftDate == strip(parts[1])
                 shiftName == strip(parts[2])
             IN  IF strptime_date(shiftDate) = NoDate THEN ErrorPage("ValueError")
                 ELSE IF ~fetched THEN ErrorPage("RuntimeError")
                 ELSE LET report == build_report(rs, shiftDate, shiftName)
                      IN  IF report.columns = <<>>
                          THEN [kind |-> "text", status |-> 200,
                                text |-> "No data found",
                                shiftDate |-> shiftDate, shift |-> shiftName,
                                rows_fetched |-> Len(rs)]
                          ELSE [kind |-> "print_form.html", status |-> 200,
                                report |-> report]

RenderPrint ==
    /\ call.fn = "GET /print/render"
    /\ response = NoResponse
    /\ \E fetched \in BOOLEAN : response' = render_print(call.key, fetched, rows)
    /\ UNCHANGED <<rows, call, ret>>

NextReport == CallBuildReport \/ RenderPrint

SpecReport == InitReport /\ [][NextReport]_vars

-----------------------------------------------------------------------------
(* The whole service: any of the calls above, on any of the inputs above.  *)

Init == InitNormalize \/ InitSort \/ InitIndex \/ InitReport

Next ==
    \/ CallNormalizeValue
    \/ CallSortDonetimeList
    \/ CallBuildShiftIndex
    \/ Picker
    \/ CallBuildReport
    \/ RenderPrint

Spec == Init /\ [][Next]_vars

-----------------------------------------------------------------------------
(* C4: normalize_value returns the empty string for a null input and for   *)
(* every input whose trimmed text is "-" or equals "N/A" when compared     *)
(* without regard to case.                                                 *)

Lower(c) == CASE c = "N" -> "n" [] c = "A" -> "a" [] OTHER -> c

LowerText(s) == [i \in 1..Len(s) |-> Lower(s[i])]

IsPlaceholderText(v) ==
    \/ v = None
    \/ strip(v) = <<"-">>
    \/ LowerText(strip(v)) = <<"n", "/", "a">>

Claim_C4_PlaceholdersCaseInsensitive ==
    (call.fn = "normalize_value" /\ ret.done /\ IsPlaceholderText(call.v))
        => ret.value = <<>>

-----------------------------------------------------------------------------
(* C1: sort_donetime_list returns a permutation of its input in            *)
(* non-decreasing order of (minutes(t) - minutes(shift start)) mod 1440,   *)
(* an unparsable text counting as 00:00 and an unknown shift starting at   *)
(* 00:00; elements with equal keys keep their input order.  For shift G    *)
(* (start 22:00) the times 23:40, 00:20, 05:00 given in any order come     *)
(* back as 23:40, 00:20, 05:00.                                            *)

ShiftStartMinutes(sh) ==
    CASE sh = <<"A">> -> 6 * 60
      [] sh = <<"B">> -> 14 * 60
      [] sh = <<"G">> -> 22 * 60
      [] OTHER -> 0

ExpectedKey(t, sh) ==
    LET m == IF parse_hhmm(t) = NoTime THEN 0 ELSE minutes(parse_hhmm(t))
        d == m - ShiftStartMinutes(sh)
    IN  IF d < 0 THEN d + 1440 ELSE d

IsStableSortOf(out, in, sh) ==
    /\ Len(out) = Len(in)
    /\ \E p \in Permutations(1..Len(in)) :
          /\ \A i \in 1..Len(in) : out[i] = in[p[i]]
          /\ \A i, j \in 1..Len(in) :
                i < j => \/ ExpectedKey(out[i], sh) < ExpectedKey(out[j], sh)
                         \/ /\ ExpectedKey(out[i], sh) = ExpectedKey(out[j], sh)
                            /\ p[i] < p[j]

NightExample == <<T2340, T0020, T0500>>

IsReorderingOfNightExample(ts) ==
    /\ Len(ts) = 3
    /\ {ts[i] : i \in 1..3} = {T2340, T0020, T0500}

Thm_C1_StableShiftSort ==
    (call.fn = "sort_donetime_list" /\ ret.done) =>
        /\ IsStableSortOf(ret.value, call.times, call.shift_name)
        /\ (call.shift_name = <<"G">> /\ IsReorderingOfNightExample(call.times))
              => ret.value = NightExample

Wit_C1_NightShiftWrap ==
    /\ call.fn = "sort_donetime_list"
    /\ ret.done
    /\ call.shift_name = <<"G">>
    /\ call.times = <<T0020, T0500, T2340>>
    /\ ret.value = NightExample

-----------------------------------------------------------------------------
(* What the claims about build_shift_index speak of.                       *)

IndexCallDone == call.fn = "build_shift_index" /\ ret.done

(* the (shiftDate, shift) of the records that have all three of shiftDate, *)
(* shift and donetime                                                      *)
Complete(r) ==
    field(r, "shiftDate") # <<>> /\ field(r, "shift") # <<>> /\ field(r, "donetime") # <<>>

GroupOf(r) == <<field(r, "shiftDate"), field(r, "shift")>>

Groups == {GroupOf(rows[i]) : i \in {k \in 1..Len(rows) : Complete(rows[k])}}

GroupTimes(g) ==
    {parse_hhmm(field(rows[i], "donetime")) :
        i \in {k \in 1..Len(rows) : Complete(rows[k]) /\ GroupOf(rows[k]) = g}}
    \ {NoTime}

ExpectedLastTime(g) ==
    IF GroupTimes(g) = {} THEN NoTime
    ELSE CHOOSE t \in GroupTimes(g) : \A u \in GroupTimes(g) : minutes(u) <= minutes(t)

DateParses(sd) == strptime_date(sd) # NoDate

DateOrdinal(sd) ==
    LET d == strptime_date(sd) IN d.year * 10000 + d.month * 100 + d.day

TimeRank(lt) == IF lt = NoTime THEN 0 ELSE minutes(lt)

(* C3: build_shift_index never fails when some group's shiftDate is not a  *)
(* parsable YYYY-MM-DD date: it returns the full ranked list, and every    *)
(* group with an unparsable date is ranked after every group with a        *)
(* parsable date.                                                          *)
Claim_C3_UnparsableDateRanksLast ==
    IndexCallDone =>
        /\ ~ret.raised
        /\ {<<ret.value[i].shiftDate, ret.value[i].shift>> : i \in 1..Len(ret.value)}
              = Groups
        /\ \A i, j \in 1..Len(ret.value) :
              (DateParses(ret.value[i].shiftDate) /\ ~DateParses(ret.value[j].shiftDate))
                  => i < j

(* C7: when every group's date parses, the returned list is ordered by     *)
(* date descending, then last-time descending with a null last-time taken  *)
(* as the earliest time: a later date always comes first, and of two       *)
(* entries of one date the one with the later last-time comes first.       *)
Thm_C7_RankedByDateThenLastTime ==
    (IndexCallDone /\ \A g \in Groups : DateParses(g[1])) =>
        /\ ~ret.raised
        /\ \A i, j \in 1..Len(ret.value) :
              LET a == ret.value[i]
                  b == ret.value[j]
              IN  /\ DateOrdinal(a.shiftDate) > DateOrdinal(b.shiftDate) => i < j
                  /\ (/\ DateOrdinal(a.shiftDate) = DateOrdinal(b.shiftDate)
                      /\ TimeRank(a.last_time) > TimeRank(b.last_time)) => i < j

Wit_C7_DateDominatesLastTime ==
    /\ IndexCallDone
    /\ rows = <<IndexRecord(D0101, ShiftA, T2300),
                IndexRecord(D0102, ShiftG, T0500),
                IndexRecord(D0102, ShiftA, T2300)>>
    /\ ~ret.raised
    /\ ret.value =
         <<[shiftDate |-> D0102, shift |-> ShiftA, last_time |-> [hour |-> 23, minute |-> 0]],
           [shiftDate |-> D0102, shift |-> ShiftG, last_time |-> [hour |-> 5, minute |-> 0]],
           [shiftDate |-> D0101, shift |-> ShiftA, last_time |-> [hour |-> 23, minute |-> 0]]>>

(* C9: for every record set build_shift_index returns exactly one entry    *)
(* per distinct (shiftDate, shift) among the records that have shiftDate,  *)
(* shift and donetime, and each entry's last_time is the latest time of    *)
(* day among the parsable donetimes of its group, or null when none        *)
(* parses, whatever the order of the records.                              *)
OneEntryPerGroupWithLatestTime(entries) ==
    /\ Len(entries) = Cardinality(Groups)
    /\ {<<entries[i].shiftDate, entries[i].shift>> : i \in 1..Len(entries)} = Groups
    /\ \A i \in 1..Len(entries) :
          entries[i].last_time
              = ExpectedLastTime(<<entries[i].shiftDate, entries[i].shift>>)

Claim_C9_OneEntryPerGroup ==
    IndexCallDone => (~ret.raised /\ OneEntryPerGroupWithLatestTime(ret.value))

(* the same, for the calls in which no date made the ranking raise         *)
Aux_C9_WhenReturned ==
    (IndexCallDone /\ ~ret.raised) => OneEntryPerGroupWithLatestTime(ret.value)

-----------------------------------------------------------------------------
(* What the claims about build_report speak of.                            *)

ReportCallDone == call.fn = "build_report" /\ ret.done

TextOf(v) == IF v = None THEN <<>> ELSE strip(v)

(* the positions in rows of the records the key (sd, sh) selects           *)
SelectedBy(sd, sh) ==
    {i \in 1..Len(rows) :
        TextOf(rows[i].shiftDate) = sd /\ TextOf(rows[i].shift) = sh}

IsAllowed(i) ==
    \E k \in 1..Len(ORDERED_ITEMS) : TextOf(rows[i].itemname) = ORDERED_ITEMS[k]

(* the selected records that have a donetime and an allowed itemname       *)
RecordedBy(sd, sh) ==
    {i \in SelectedBy(sd, sh) : TextOf(rows[i].donetime) # <<>> /\ IsAllowed(i)}

MetadataOf(i) ==
    [operator        |-> TextOf(rows[i].operator),
     product         |-> TextOf(rows[i].productproduced),
     productionOrder |-> TextOf(rows[i].productionOrder),
     station         |-> TextOf(rows[i].station),
     factory         |-> TextOf(rows[i].factoryName)]

First(S) == CHOOSE i \in S : \A j \in S : i <= j
Latest(S) == CHOOSE i \in S : \A j \in S : j <= i

LastColumn == ret.value.columns[Len(ret.value.columns)]

(* C2, as the specification states it: when a column exists, the header is *)
(* the metadata of the first record in input order, among the selected     *)
(* records, whose donetime is the last column's, whatever its itemname     *)
(* (allowed or not).                                                       *)
Claim_C2_HeaderFromFirstRecordOfAnyItem ==
    (ReportCallDone /\ ret.value.columns # <<>>) =>
        LET S == {i \in SelectedBy(call.shiftDate, call.shiftName) :
                     TextOf(rows[i].donetime) = LastColumn}
        IN  S # {} /\ ret.value.header = MetadataOf(First(S))

(* C2, amended: when a column exists, the header is the metadata of the    *)
(* first record in input order, among the selected records with an allowed *)
(* itemname, whose donetime is the last column's; later records with the   *)
(* same donetime never change it.                                          *)
Thm_C2_HeaderFromFirstAllowedRecord ==
    (ReportCallDone /\ ret.value.columns # <<>>) =>
        LET S == {i \in RecordedBy(call.shiftDate, call.shiftName) :
                     TextOf(rows[i].donetime) = LastColumn}
        IN  S # {} /\ ret.value.header = MetadataOf(First(S))

Wit_C2_LaterRecordLeavesHeader ==
    /\ ReportCallDone
    /\ ret.value.columns # <<>>
    /\ \E i, j \in RecordedBy(call.shiftDate, call.shiftName) :
          /\ i < j
          /\ TextOf(rows[i].donetime) = LastColumn
          /\ TextOf(rows[j].donetime) = LastColumn
          /\ MetadataOf(i) # MetadataOf(j)
          /\ \A k \in SelectedBy(call.shiftDate, call.shiftName) :
                TextOf(rows[k].donetime) = LastColumn => i <= k
          /\ ret.value.header = MetadataOf(i)

(* C5: the cell at an item's row and a donetime's column holds             *)
(* normalize_value(itemresult) of the last record in input order, among    *)
(* the selected records with that donetime and that itemname; a cell with  *)
(* no such record is the empty string.                                     *)
Thm_C5_LastWriteWins ==
    ReportCallDone =>
        \A k \in 1..Len(ORDERED_ITEMS) : \A c \in 1..Len(ret.value.columns) :
            LET S == {i \in SelectedBy(call.shiftDate, call.shiftName) :
                         /\ TextOf(rows[i].donetime) = ret.value.columns[c]
                         /\ TextOf(rows[i].itemname) = ORDERED_ITEMS[k]}
            IN  ret.value.matrix[k].values[c]
                    = IF S = {} THEN <<>> ELSE normalize_value(rows[Latest(S)].itemresult)

Wit_C5_TwoRecordsOneCell ==
    /\ ReportCallDone
    /\ \E i, j \in RecordedBy(call.shiftDate, call.shiftName) :
          /\ i < j
          /\ j = Len(rows)
          /\ TextOf(rows[i].donetime) = TextOf(rows[j].donetime)
          /\ TextOf(rows[i].itemname) = TextOf(rows[j].itemname)
          /\ normalize_value(rows[i].itemresult) = <<"1", "2", ".", "5">>
          /\ normalize_value(rows[j].itemresult) = <<"7">>
          /\ \E k \in 1..Len(ORDERED_ITEMS) : \E c \in 1..Len(ret.value.columns) :
                /\ ORDERED_ITEMS[k] = TextOf(rows[j].itemname)
                /\ ret.value.columns[c] = TextOf(rows[j].donetime)
                /\ ret.value.matrix[k].values[c] = <<"7">>

(* C6: the matrix has exactly one row per configured item, in the order of *)
(* ORDERED_ITEMS, each row has one value per column, and the records whose *)
(* itemname is outside the allow-list add neither a row nor a value: the   *)
(* columns and the matrix are those of the record set without them.        *)
RECURSIVE WithoutUnlistedItems(_)
WithoutUnlistedItems(rs) ==
    IF rs = <<>> THEN <<>>
    ELSE IF \E k \in 1..Len(ORDERED_ITEMS) : TextOf(Head(rs).itemname) = ORDERED_ITEMS[k]
         THEN <<Head(rs)>> \o WithoutUnlistedItems(Tail(rs))
         ELSE WithoutUnlistedItems(Tail(rs))

Thm_C6_RowsAreTheConfiguredItems ==
    ReportCallDone =>
        /\ Len(ret.value.matrix) = Len(ORDERED_ITEMS)
        /\ \A k \in 1..Len(ORDERED_ITEMS) :
              /\ ret.value.matrix[k].label = ORDERED_ITEMS[k]
              /\ Len(ret.value.matrix[k].values) = Len(ret.value.columns)
        /\ LET clean == build_report(WithoutUnlistedItems(rows),
                                     call.shiftDate, call.shiftName)
           IN  ret.value.columns = clean.columns /\ ret.value.matrix = clean.matrix

Wit_C6_UnlistedItemAmongListed ==
    /\ ReportCallDone
    /\ Len(ret.value.matrix) = 10
    /\ Len(ret.value.columns) = 2
    /\ \E i \in SelectedBy(call.shiftDate, call.shiftName) :
          TextOf(rows[i].donetime) # <<>> /\ ~IsAllowed(i)

(* C10: the column list has no duplicates and as many entries as there are *)
(* distinct donetimes recorded for the key, the non-empty donetimes of the *)
(* selected records that the grouping step recorded.                       *)
Thm_C10_OneColumnPerDonetime ==
    ReportCallDone =>
        /\ \A c, d \in 1..Len(ret.value.columns) :
              ret.value.columns[c] = ret.value.columns[d] => c = d
        /\ Len(ret.value.columns)
              = Cardinality({TextOf(rows[i].donetime) :
                                i \in RecordedBy(call.shiftDate, call.shiftName)})

Wit_C10_SharedDonetime ==
    /\ ReportCallDone
    /\ Cardinality(RecordedBy(call.shiftDate, call.shiftName)) = 3
    /\ Len(ret.value.columns) = 2

-----------------------------------------------------------------------------
(* What the claim about the print request speaks of.                       *)

(* the request was answered after its records were fetched                 *)
RenderAnswered ==
    call.fn = "GET /print/render" /\ response.kind # "none" /\ response.status = 200

RequestedDate == strip(split(call.key, "|")[1])
RequestedShift == strip(split(call.key, "|")[2])

IsNoData == response.kind = "text" /\ response.text = "No data found"
IsMatrix == response.kind = "print_form.html"

(* C8: the print request answers "No data found", and no rendered matrix,  *)
(* exactly when no fetched record matches the selected key with a          *)
(* non-empty donetime and an allowed itemname; when there is such a record *)
(* the matrix is rendered, even if all its cells are empty.                *)
Thm_C8_NoDataExactlyWhenNothingRecorded ==
    RenderAnswered =>
        /\ IsNoData <=> RecordedBy(RequestedDate, RequestedShift) = {}
        /\ IsMatrix <=> RecordedBy(RequestedDate, RequestedShift) # {}
        /\ IsMatrix => Len(response.report.columns) >= 1

Wit_C8_MatrixOfEmptyCells ==
    /\ RenderAnswered
    /\ IsMatrix
    /\ RecordedBy(RequestedDate, RequestedShift) # {}
    /\ \A k \in 1..Len(ORDERED_ITEMS) : \A c \in 1..Len(response.report.columns) :
          response.report.matrix[k].values[c] = <<>>

=============================================================================
